---- MODULE Spec2Model ----
(***************************************************************************)
(* Model of the dataset-labeling page (LabelingPage) with its children     *)
(* ImageCanvas, ImageUploader and ActiveLearningSuggestions.               *)
(*                                                                         *)
(* Every React event handler and every continuation of an async function   *)
(* after an await is one atomic action.  A handler reads the state of the  *)
(* latest render; an async function keeps the values its closure captured  *)
(* when it was called (saveSnap, loadSel).                                 *)
(*                                                                         *)
(* Normalized coordinates are kept exactly, as integer numerators over     *)
(* the scaled image size (x over ScaledWidth, y over ScaledHeight).        *)
(*                                                                         *)
(* ActiveLearningSuggestions renders the list it gets from its loader; the *)
(* loader of this revision still installs a placeholder list, so the       *)
(* suggestions that may be clicked are an input of the model (Suggestions).*)
(*                                                                         *)
(* The analysis history of useAnalysisStore and the browser storage its    *)
(* persist adapter writes to are modelled beside the page (SpecHistory);   *)
(* the page does not use them.                                             *)
(***************************************************************************)
EXTENDS Integers, Sequences, FiniteSets, TLC

\* ------------------------------------------------------------------ bounds
MaxAnn == 2        \* annotations a session may hold
MaxStore == 3      \* commits the Sample Store accepts in one run of SpecSave
MaxStoreUI == 1    \* commits the Sample Store accepts in one run of Spec
MaxReads == 1      \* FileReader reads in flight at once
MaxAdded == 52     \* analyses added to the history in one run of SpecHistory

\* --------------------------------------------------------------- constants
Undefined == "undefined"     \* an absent string field
NoNum == 0                   \* an absent / null number (falsy in the code)

MinSizeNum == 5              \* 0.005 = MinSizeNum / MinSizeDen
MinSizeDen == 1000

ScaledWidth == 200           \* image.width * scale, in canvas pixels
ScaledHeight == 200          \* image.height * scale, in canvas pixels

\* mouse positions, relative to the top-left corner of the drawn image
MousePoints == { <<-3, -3>>, <<1, 205>>, <<205, 205>> }
\* the two corners of a full-image drag
CornerPoints == { <<-3, -3>>, <<205, 205>> }

\* defect types the registry may return (ids are SERIAL, so >= 1)
TypePorosity == [id |-> 1, name |-> "porosity"]
TypeCrack == [id |-> 2, name |-> "crack"]
RegistryLists == { <<>>, <<TypePorosity, TypeCrack>>, <<TypeCrack>> }
StableRegistryLists == { <<TypePorosity, TypeCrack>> }

\* files the user may hand to the uploader
Files == { [name |-> "weld.png", isImage |-> TRUE, data |-> "data:weld.png"],
           [name |-> "notes.txt", isImage |-> FALSE, data |-> "data:notes.txt"] }
ManualImageId == "manual_1"

\* the analysis history (useAnalysisStore) and the browser storage behind it
HistoryLimit == 50                  \* [newEntry, ...state.history].slice(0, 50)
StorageName == "radikal-analysis"   \* the key the history is persisted under
SettingsName == "radikal-settings"  \* the key of the settings store of the app
\* ids removeFromHistory is called with (0 is the id of no entry)
RemoveIds == { 0, 1, 3, 52 }
\* quotas of the storage, in history entries
StorageQuotas == { 2, 60 }

\* suggestions the active-learning list may show
Suggestions == { [id |-> 42, image_path |-> "al/42.png"],
                 [id |-> 7, image_path |-> Undefined] }

VARIABLES
  session,          \* LabelingSession
  defectTypes,      \* list of active defect types
  selectedClassId,  \* id of the selected class, NoNum when null
  loading,          \* page shows the loading spinner
  error,            \* page shows the error screen (Undefined when null)
  saving,           \* a save is pending
  savePc,           \* position of handleSaveAnnotations: idle, commit, reload
  saveSnap,         \* the session captured by the pending handleSaveAnnotations
  saveIdx,          \* 1-based index of the annotation whose commit is awaited
  loadPending,      \* a loadDefectTypes call awaits the registry
  loadSel,          \* selectedClassId captured by that call
  pendingReads,     \* FileReader reads in flight
  canvas,           \* state of the ImageCanvas component
  store,            \* Sample Store: a bag, [p: the FormData, k: how many commits carried it]
  commitLog,        \* pending save: its number of annotations, the FormData of each
                    \* commit attempted and the result of each
  skipCalls,        \* suggestion ids reported as skipped to the queue
  history,          \* useAnalysisStore: the analysis history, newest first
  localStorage,     \* the browser storage of the origin
  idSeq,            \* how many history ids have been generated
  last              \* the latest handler: its name, its alert, the annotations it
                    \* discarded, the commit log of the save it ended, whether that
                    \* save was started right after a failed one, and the box or
                    \* the index (<<i>>) the handler was given, and whether the
                    \* load it settled was the reload of a save, and the corner a
                    \* drag it ended had started at

historyVars == << history, localStorage, idSeq >>

vars == << session, defectTypes, selectedClassId, loading, error, saving, savePc,
           saveSnap, saveIdx, loadPending, loadSel, pendingReads, canvas, store,
           commitLog, skipCalls, history, localStorage, idSeq, last >>

\* ------------------------------------------------------------ the session
EmptySession ==
  [ mode |-> "manual", currentImagePath |-> Undefined, currentImageId |-> Undefined,
    currentSuggestionId |-> NoNum, annotations |-> <<>> ]

CanvasInit ==
  [ image |-> FALSE, isDrawing |-> FALSE, drawStart |-> <<>>, currentBox |-> <<>>,
    hoveredIndex |-> -1 ]

\* the page renders its main view (not the spinner, error or no-types screen)
PageVisibleOf(l, e, d) == ~l /\ e = Undefined /\ Len(d) > 0
PageVisible == PageVisibleOf(loading, error, defectTypes)

CanvasMountedOf(s, l, e, d) == PageVisibleOf(l, e, d) /\ s.currentImagePath # Undefined
CanvasMounted == CanvasMountedOf(session, loading, error, defectTypes)

UploaderMounted ==
  PageVisible /\ session.mode = "manual" /\ session.currentImagePath = Undefined

SuggestionsMounted ==
  PageVisible /\ session.mode = "active_learning" /\ session.currentImagePath = Undefined

\* component state of the canvas after a render: kept while it stays mounted,
\* fresh after a mount, gone after an unmount
CanvasAfter(c, s, l, e, d) ==
  IF CanvasMountedOf(s, l, e, d)
    THEN IF CanvasMounted THEN c ELSE CanvasInit
    ELSE CanvasInit

NoLog == [n |-> 0, sent |-> <<>>, results |-> <<>>]

Op(name, alert) ==
  [op |-> name, alert |-> alert, n |-> 0, log |-> NoLog, retry |-> FALSE,
   box |-> <<>>, index |-> <<>>, afterSave |-> FALSE, start |-> <<>>]

\* the browser storage: whether the page may access it at all (else every
\* access throws), its quota, and its items; the value of the history key is
\* the persisted history, other items are opaque and count by their size
SettingsItem == [name |-> SettingsName, value |-> <<>>, size |-> 1]

StorageEmpty(avail, quota) == [available |-> avail, quota |-> quota, items |-> {}]

\* the labeling page does not use the history store
HistoryIdle ==
  /\ history = <<>>
  /\ idSeq = 0
  /\ localStorage = StorageEmpty(TRUE, 60)

Init ==
  /\ HistoryIdle
  /\ session = EmptySession
  /\ defectTypes = <<>>
  /\ selectedClassId = NoNum
  /\ loading = TRUE
  /\ error = Undefined
  /\ saving = FALSE
  /\ savePc = "idle"
  /\ saveSnap = EmptySession
  /\ saveIdx = 1
  /\ loadPending = TRUE
  /\ loadSel = NoNum
  /\ pendingReads = 0
  /\ canvas = CanvasInit
  /\ store = {}
  /\ commitLog = NoLog
  /\ skipCalls = <<>>
  /\ last = Op("mount", Undefined)

\* ------------------------------------------------------- loadDefectTypes
\* the synchronous head of loadDefectTypes: setLoading(true), setError(null)
\* and the request, issued with the selectedClassId of the calling render
StartLoad ==
  /\ loading' = TRUE
  /\ error' = Undefined
  /\ loadPending' = TRUE
  /\ loadSel' = selectedClassId

\* mutant: the finally block is missing
FinishSaveAfterReloadNever == UNCHANGED << saving, savePc >>

\* what the finally block of a pending handleSaveAnnotations does once the
\* awaited reload has settled
FinishSaveAfterReload ==
  /\ saving' = (IF savePc = "reload" THEN FALSE ELSE saving)
  /\ savePc' = (IF savePc = "reload" THEN "idle" ELSE savePc)

\* mutant: loadDefectTypes lets the error through to the catch block of
\* handleSaveAnnotations
ReloadFailureAlertRethrown(pc) ==
  IF pc = "reload" THEN "Failed to save annotations" ELSE Undefined

\* what the user is told when the load fails: loadDefectTypes catches the
\* error itself and shows it on the error screen, no alert is raised
ReloadFailureAlert(pc) == Undefined

SelectedAfterLoad(types, captured, current) ==
  IF Len(types) > 0 /\ captured = NoNum THEN types[1].id ELSE current

LoadOk(types) ==
  /\ loadPending
  /\ defectTypes' = types
  /\ selectedClassId' = SelectedAfterLoad(types, loadSel, selectedClassId)
  /\ loading' = FALSE
  /\ loadPending' = FALSE
  /\ FinishSaveAfterReload
  /\ canvas' = CanvasAfter(canvas, session, FALSE, error, types)
  /\ last' = [Op("loadOk", Undefined) EXCEPT !.afterSave = (savePc = "reload")]
  /\ UNCHANGED << session, error, saveSnap, saveIdx, loadSel, pendingReads, store,
                  commitLog, skipCalls >>
  /\ UNCHANGED historyVars

LoadFail ==
  /\ loadPending
  /\ error' = "Failed to load defect types"
  /\ loading' = FALSE
  /\ loadPending' = FALSE
  /\ FinishSaveAfterReload
  /\ canvas' = CanvasInit
  /\ last' = [Op("loadFail", ReloadFailureAlert(savePc)) EXCEPT
                !.afterSave = (savePc = "reload")]
  /\ UNCHANGED << session, defectTypes, selectedClassId, saveSnap, saveIdx, loadSel,
                  pendingReads, store, commitLog, skipCalls >>
  /\ UNCHANGED historyVars

\* the Retry button of the error screen
RetryLoad ==
  /\ ~loading /\ error # Undefined
  /\ StartLoad
  /\ canvas' = CanvasInit
  /\ last' = Op("retryLoad", Undefined)
  /\ UNCHANGED << session, defectTypes, selectedClassId, saving, savePc, saveSnap,
                  saveIdx, pendingReads, store, commitLog, skipCalls >>
  /\ UNCHANGED historyVars

\* ------------------------------------------------------ image acquisition
ManualSession(imagePath, imageId) ==
  [ mode |-> "manual", currentImagePath |-> imagePath, currentImageId |-> imageId,
    currentSuggestionId |-> NoNum, annotations |-> <<>> ]

ActiveLearningSession(imagePath, imageId, suggestionId) ==
  [ mode |-> "active_learning", currentImagePath |-> imagePath,
    currentImageId |-> imageId, currentSuggestionId |-> suggestionId,
    annotations |-> <<>> ]

\* `al_${suggestion.id}`
SuggestionImageId(id) == "al_" \o ToString(id)

\* ImageUploader.handleFile: validation, then the asynchronous read
HandleFile(f) ==
  /\ UploaderMounted
  /\ IF ~f.isImage
       THEN /\ last' = Op("handleFile", "Please upload an image file")
            /\ UNCHANGED pendingReads
       ELSE /\ pendingReads < MaxReads
            /\ pendingReads' = pendingReads + 1
            /\ last' = Op("handleFile", Undefined)
  /\ UNCHANGED << session, defectTypes, selectedClassId, loading, error, saving, savePc,
                  saveSnap, saveIdx, loadPending, loadSel, canvas, store, commitLog,
                  skipCalls >>
  /\ UNCHANGED historyVars

\* FileReader.onload -> onImageUpload -> handleImageUpload; the callback of the
\* render that started the read is called whatever the page shows by now
ReaderOnLoad(f) ==
  /\ pendingReads > 0
  /\ f.isImage
  /\ pendingReads' = pendingReads - 1
  /\ session' = ManualSession(f.data, ManualImageId)
  /\ canvas' = CanvasAfter(canvas, session', loading, error, defectTypes)
  /\ last' = Op("handleImageUpload", Undefined)
  /\ UNCHANGED << defectTypes, selectedClassId, loading, error, saving, savePc, saveSnap,
                  saveIdx, loadPending, loadSel, store, commitLog, skipCalls >>
  /\ UNCHANGED historyVars

\* click on a suggestion card -> handleActiveLearningSelect
SelectSuggestion(sg) ==
  /\ SuggestionsMounted
  /\ sg.image_path # Undefined
  /\ session' = ActiveLearningSession(sg.image_path, SuggestionImageId(sg.id), sg.id)
  /\ canvas' = CanvasAfter(canvas, session', loading, error, defectTypes)
  /\ last' = Op("handleActiveLearningSelect", Undefined)
  /\ UNCHANGED << defectTypes, selectedClassId, loading, error, saving, savePc, saveSnap,
                  saveIdx, loadPending, loadSel, pendingReads, store, commitLog,
                  skipCalls >>
  /\ UNCHANGED historyVars

\* -------------------------------------------------------------- selectors
\* mutant: the button sets a fresh session in the chosen mode
ModeSelectFreshSession(s, m) == [EmptySession EXCEPT !.mode = m]

\* setSession(prev => ({ ...prev, mode }))
ModeSelect(s, m) == [s EXCEPT !.mode = m]

SelectMode(m) ==
  /\ PageVisible
  /\ m # session.mode
  /\ session' = ModeSelect(session, m)
  /\ last' = Op("selectMode", Undefined)
  /\ UNCHANGED << defectTypes, selectedClassId, loading, error, saving, savePc, saveSnap,
                  saveIdx, loadPending, loadSel, pendingReads, canvas, store, commitLog,
                  skipCalls >>
  /\ UNCHANGED historyVars

SelectClass(i) ==
  /\ PageVisible
  /\ i \in 1..Len(defectTypes)
  /\ defectTypes[i].id # selectedClassId
  /\ selectedClassId' = defectTypes[i].id
  /\ last' = Op("selectClass", Undefined)
  /\ UNCHANGED << session, defectTypes, loading, error, saving, savePc, saveSnap, saveIdx,
                  loadPending, loadSel, pendingReads, canvas, store, commitLog, skipCalls >>
  /\ UNCHANGED historyVars

\* ----------------------------------------------------------- the canvas
Min(a, b) == IF a < b THEN a ELSE b
Max(a, b) == IF a > b THEN a ELSE b

\* mutant: the normalized point is not clamped to [0, 1]
getCanvasCoordinatesUnclamped(c, p) == IF ~c.image THEN <<>> ELSE << p[1], p[2] >>

\* getCanvasCoordinates: <<>> for null, else the clamped normalized point
\* (numerators over ScaledWidth and ScaledHeight)
getCanvasCoordinates(c, p) ==
  IF ~c.image THEN <<>>
  ELSE << Max(0, Min(ScaledWidth, p[1])), Max(0, Min(ScaledHeight, p[2])) >>

\* annotations.findIndex(ann => point inside ann.bbox), 0-based, -1 if none
HoveredIndexAt(anns, pt) ==
  LET hits == { i \in 1..Len(anns) :
                  /\ pt[1] >= anns[i].bbox[1] /\ pt[1] <= anns[i].bbox[3]
                  /\ pt[2] >= anns[i].bbox[2] /\ pt[2] <= anns[i].bbox[4] }
  IN IF hits = {} THEN -1
     ELSE (CHOOSE i \in hits : \A j \in hits : i <= j) - 1

\* Math.min / Math.max of the drag start and the current point
BoxOf(start, pt) ==
  << Min(start[1], pt[1]), Min(start[2], pt[2]),
     Max(start[1], pt[1]), Max(start[2], pt[2]) >>

\* mutant: the minimum size is tested on the width only
MinSizeOkWidthOnly(box) == (box[3] - box[1]) * MinSizeDen > MinSizeNum * ScaledWidth

\* width > 0.005 && height > 0.005
MinSizeOk(box) ==
  /\ (box[3] - box[1]) * MinSizeDen > MinSizeNum * ScaledWidth
  /\ (box[4] - box[2]) * MinSizeDen > MinSizeNum * ScaledHeight

\* defectTypes.find(t => t.id === id): the matching types, first one taken
FindType(types, id) ==
  LET hits == { i \in 1..Len(types) : types[i].id = id }
  IN IF hits = {} THEN <<>>
     ELSE << types[CHOOSE i \in hits : \A j \in hits : i <= j] >>

\* mutant: the new entry is put in front ([newEntry, ...prev.annotations])
AddAnnotationInFront(s, bbox, classId, types) ==
  IF classId = NoNum THEN s
  ELSE IF FindType(types, classId) = <<>> THEN s
  ELSE [s EXCEPT !.annotations =
          << [bbox |-> bbox, class_id |-> classId,
              class_name |-> FindType(types, classId)[1].name] >> \o @]

\* handleAddAnnotation: the session it sets, given the selected class and types
AddAnnotation(s, bbox, classId, types) ==
  IF classId = NoNum THEN s
  ELSE IF FindType(types, classId) = <<>> THEN s
  ELSE [s EXCEPT !.annotations =
          Append(@, [bbox |-> bbox, class_id |-> classId,
                     class_name |-> FindType(types, classId)[1].name])]

\* mutant: the test is left to handleMouseDown alone
AddAlertNever(classId) == Undefined

AddAlert(classId) ==
  IF classId = NoNum THEN "Please select a defect class first" ELSE Undefined

\* mutant: annotations.splice(index, 1), which counts a negative index from the end
RemoveAtSplice(anns, index) ==
  LET at == IF index < 0 THEN Max(Len(anns) + index, 0) ELSE index
  IN IF at >= Len(anns) THEN anns
     ELSE SubSeq(anns, 1, at) \o SubSeq(anns, at + 2, Len(anns))

\* mutant: the index is taken as 1-based
RemoveAtOneBased(anns, index) ==
  LET kept(j) == Cardinality({ i \in 1..j : i # index })
      pos(k) == CHOOSE j \in 1..Len(anns) : j # index /\ kept(j) = k
  IN [ k \in 1..kept(Len(anns)) |-> anns[pos(k)] ]

\* prev.annotations.filter((_, i) => i !== index), index 0-based
RemoveAt(anns, index) ==
  LET kept(j) == Cardinality({ i \in 1..j : i - 1 # index })   \* entries kept among the first j
      pos(k) == CHOOSE j \in 1..Len(anns) : j - 1 # index /\ kept(j) = k
  IN [ k \in 1..kept(Len(anns)) |-> anns[pos(k)] ]

\* the <img> of the canvas finishes loading
ImageOnLoad ==
  /\ CanvasMounted /\ ~canvas.image
  /\ canvas' = [canvas EXCEPT !.image = TRUE]
  /\ last' = Op("imageOnLoad", Undefined)
  /\ UNCHANGED << session, defectTypes, selectedClassId, loading, error, saving, savePc,
                  saveSnap, saveIdx, loadPending, loadSel, pendingReads, store,
                  commitLog, skipCalls >>
  /\ UNCHANGED historyVars

handleMouseDown(p) ==
  /\ CanvasMounted
  /\ IF selectedClassId = NoNum
       THEN /\ last' = Op("handleMouseDown", "Please select a defect class first")
            /\ UNCHANGED canvas
       ELSE /\ getCanvasCoordinates(canvas, p) # <<>>
            /\ LET c == getCanvasCoordinates(canvas, p)
               IN canvas' = [canvas EXCEPT !.isDrawing = TRUE, !.drawStart = c,
                                           !.currentBox = <<c[1], c[2], c[1], c[2]>>]
            /\ last' = Op("handleMouseDown", Undefined)
  /\ UNCHANGED << session, defectTypes, selectedClassId, loading, error, saving, savePc,
                  saveSnap, saveIdx, loadPending, loadSel, pendingReads, store,
                  commitLog, skipCalls >>
  /\ UNCHANGED historyVars

handleMouseMove(p) ==
  /\ CanvasMounted
  /\ canvas.isDrawing /\ canvas.drawStart # <<>>
  /\ getCanvasCoordinates(canvas, p) # <<>>
  /\ LET c == getCanvasCoordinates(canvas, p)
     IN canvas' = [canvas EXCEPT !.currentBox = BoxOf(canvas.drawStart, c),
                                 !.hoveredIndex = HoveredIndexAt(session.annotations, c)]
  /\ last' = Op("handleMouseMove", Undefined)
  /\ UNCHANGED << session, defectTypes, selectedClassId, loading, error, saving, savePc,
                  saveSnap, saveIdx, loadPending, loadSel, pendingReads, store,
                  commitLog, skipCalls >>
  /\ UNCHANGED historyVars

\* onMouseUp and onMouseLeave
handleMouseUp ==
  /\ CanvasMounted
  /\ canvas.isDrawing /\ canvas.currentBox # <<>>
  /\ IF MinSizeOk(canvas.currentBox)
       THEN /\ session' = AddAnnotation(session, canvas.currentBox, selectedClassId,
                                        defectTypes)
            /\ Len(session'.annotations) <= MaxAnn
            /\ last' = [Op("handleMouseUp", AddAlert(selectedClassId)) EXCEPT
                          !.box = canvas.currentBox, !.start = canvas.drawStart]
       ELSE /\ UNCHANGED session
            /\ last' = [Op("handleMouseUp", Undefined) EXCEPT
                          !.box = canvas.currentBox, !.start = canvas.drawStart]
  /\ canvas' = [canvas EXCEPT !.isDrawing = FALSE, !.drawStart = <<>>,
                              !.currentBox = <<>>]
  /\ UNCHANGED << defectTypes, selectedClassId, loading, error, saving, savePc, saveSnap,
                  saveIdx, loadPending, loadSel, pendingReads, store, commitLog,
                  skipCalls >>
  /\ UNCHANGED historyVars

\* Ctrl+Click on the canvas
handleCanvasClick ==
  /\ CanvasMounted
  /\ canvas.hoveredIndex # -1
  /\ session' = [session EXCEPT !.annotations = RemoveAt(@, canvas.hoveredIndex)]
  /\ last' = [Op("handleCanvasClick", Undefined) EXCEPT !.index = <<canvas.hoveredIndex>>]
  /\ UNCHANGED << defectTypes, selectedClassId, loading, error, saving, savePc, saveSnap,
                  saveIdx, loadPending, loadSel, pendingReads, canvas, store, commitLog,
                  skipCalls >>
  /\ UNCHANGED historyVars

\* the Remove button of entry index (0-based) of the annotation list
RemoveButton(index) ==
  /\ PageVisible
  /\ index \in 0..(Len(session.annotations) - 1)
  /\ session' = [session EXCEPT !.annotations = RemoveAt(@, index)]
  /\ last' = [Op("handleRemoveAnnotation", Undefined) EXCEPT !.index = <<index>>]
  /\ UNCHANGED << defectTypes, selectedClassId, loading, error, saving, savePc, saveSnap,
                  saveIdx, loadPending, loadSel, pendingReads, canvas, store, commitLog,
                  skipCalls >>
  /\ UNCHANGED historyVars

\* ------------------------------------------------------------------- save
\* mutant: the early return forgets the empty annotation list
SaveRejectsNoImageOnly(s) == s.currentImagePath = Undefined

\* the early return of handleSaveAnnotations
SaveRejects(s) == s.currentImagePath = Undefined \/ Len(s.annotations) = 0

\* mutant: every sample is marked as a manual one
PayloadSourceManual(s, a) ==
  [ defect_type_id |-> ToString(a.class_id),
    image_path |-> s.currentImagePath,
    image_id |-> s.currentImageId,
    annotations |-> [bbox |-> a.bbox, class_name |-> a.class_name],
    annotation_format |-> "bbox",
    source |-> "manual" ]

\* the FormData of one commit, built from the session the handler captured
Payload(s, a) ==
  [ defect_type_id |-> ToString(a.class_id),
    image_path |-> s.currentImagePath,
    image_id |-> s.currentImageId,
    annotations |-> [bbox |-> a.bbox, class_name |-> a.class_name],
    annotation_format |-> "bbox",
    source |-> IF s.mode = "active_learning" THEN "active_learning" ELSE "manual" ]

CopiesOf(st, p) ==
  IF \E e \in st : e.p = p THEN (CHOOSE e \in st : e.p = p).k ELSE 0

RECURSIVE StoreSize(_)
StoreSize(st) ==
  IF st = {} THEN 0
  ELSE LET e == CHOOSE x \in st : TRUE IN e.k + StoreSize(st \ {e})

\* mutant: the commit is acknowledged but the sample is not kept
StoreAfterCommitLost(st, p) == st

\* the Sample Store after a successful addTrainingSample
StoreAfterCommit(st, p) ==
  { e \in st : e.p # p } \cup { [p |-> p, k |-> CopiesOf(st, p) + 1] }

\* the session set after the last commit succeeded ("Reset session")
SessionAfterSave(snap) == EmptySession

\* mutant: the catch block resets the session as the success path does
SessionAfterSaveFailureReset(s) == EmptySession

\* the session after the catch block ran (it sets nothing)
SessionAfterSaveFailure(s) == s

\* mutant: the rejection is caught inside the loop, which goes on
PcAfterCommitFailureContinue(idx, n) == IF idx < n THEN "commit" ELSE "idle"

\* where handleSaveAnnotations goes when the commit of annotation idx of n
\* rejects: the throw leaves the loop for the catch and finally blocks
PcAfterCommitFailure(idx, n) == "idle"

\* mutant: the reload is moved to the finally block
ReloadAfterSaveAlways(ok) == TRUE

\* whether handleSaveAnnotations calls loadDefectTypes: in the try block after
\* the last commit, so not when a commit rejected
ReloadAfterSave(ok) == ok

\* the commit log once the awaited commit of the pending save has settled
LogAfterCommit(ok) ==
  [commitLog EXCEPT
     !.sent = Append(@, Payload(saveSnap, saveSnap.annotations[saveIdx])),
     !.results = Append(@, ok)]

\* click on Save Annotations (the button is disabled while saving)
handleSaveAnnotations(cap) ==
  /\ PageVisible
  /\ ~saving
  /\ IF SaveRejects(session)
       THEN /\ last' = Op("handleSaveAnnotations", "Please add at least one annotation")
            /\ UNCHANGED << saving, savePc, saveSnap, saveIdx, commitLog >>
       ELSE /\ StoreSize(store) + Len(session.annotations) <= cap
            /\ saving' = TRUE
            /\ savePc' = "commit"
            /\ saveSnap' = session
            /\ saveIdx' = 1
            /\ commitLog' = [n |-> Len(session.annotations), sent |-> <<>>,
                             results |-> <<>>]
            /\ last' = [Op("handleSaveAnnotations", Undefined) EXCEPT
                          !.retry = (last.op = "saveFail")]
  /\ UNCHANGED << session, defectTypes, selectedClassId, loading, error, loadPending,
                  loadSel, pendingReads, canvas, store, skipCalls >>
  /\ UNCHANGED historyVars

\* the awaited addTrainingSample resolves; after the last one the handler
\* resets the session and calls loadDefectTypes
CommitOk ==
  /\ savePc = "commit"
  /\ store' = StoreAfterCommit(store, Payload(saveSnap, saveSnap.annotations[saveIdx]))
  /\ IF saveIdx < Len(saveSnap.annotations)
       THEN /\ saveIdx' = saveIdx + 1
            /\ commitLog' = LogAfterCommit(TRUE)
            /\ last' = [Op("commitOk", Undefined) EXCEPT !.retry = last.retry]
            /\ UNCHANGED << session, loading, error, savePc, saveSnap, loadPending,
                            loadSel, canvas >>
       ELSE /\ session' = SessionAfterSave(saveSnap)
            /\ ReloadAfterSave(TRUE)
            /\ StartLoad
            /\ savePc' = "reload"
            /\ saveSnap' = EmptySession
            /\ saveIdx' = 1
            /\ commitLog' = NoLog
            /\ canvas' = CanvasInit
            /\ last' = [Op("saveOk", "Saved annotation(s) successfully!") EXCEPT
                          !.n = Len(session.annotations),
                          !.log = LogAfterCommit(TRUE),
                          !.retry = last.retry]
  /\ UNCHANGED << defectTypes, selectedClassId, saving, pendingReads, skipCalls >>
  /\ UNCHANGED historyVars

\* the awaited addTrainingSample rejects
CommitFail ==
  /\ savePc = "commit"
  /\ savePc' = PcAfterCommitFailure(saveIdx, Len(saveSnap.annotations))
  /\ IF savePc' = "idle"
       THEN /\ saving' = FALSE
            /\ session' = SessionAfterSaveFailure(session)
            /\ IF ReloadAfterSave(FALSE)
                 THEN StartLoad
                 ELSE UNCHANGED << loading, error, loadPending, loadSel >>
            /\ canvas' = CanvasAfter(canvas, session', loading', error', defectTypes)
            /\ saveSnap' = EmptySession
            /\ saveIdx' = 1
            /\ commitLog' = NoLog
            /\ last' = [Op("saveFail", "Failed to save annotations") EXCEPT
                          !.log = LogAfterCommit(FALSE),
                          !.retry = last.retry]
       ELSE /\ saveIdx' = saveIdx + 1
            /\ commitLog' = LogAfterCommit(FALSE)
            /\ last' = [Op("commitFail", Undefined) EXCEPT !.retry = last.retry]
            /\ UNCHANGED << saving, session, canvas, saveSnap, loading, error,
                            loadPending, loadSel >>
  /\ UNCHANGED << defectTypes, selectedClassId, pendingReads, store, skipCalls >>
  /\ UNCHANGED historyVars

\* ------------------------------------------------------------------- skip
\* mutant: the Skip Image button is not disabled while saving
SkipEnabledWhileSaving == session.currentImagePath # Undefined

\* the Skip Image button is rendered with an image and disabled while saving
SkipEnabled == session.currentImagePath # Undefined /\ ~saving

\* mutant: handleSkip clears the image but keeps the annotations
SessionAfterSkipKeepingAnnotations(s) == [EmptySession EXCEPT !.annotations = s.annotations]

\* the session handleSkip sets
SessionAfterSkip(s) == EmptySession

\* the queue after handleSkip: the notification is not issued
SkipCallsAfterSkip(calls, s) == calls

handleSkip ==
  /\ PageVisible
  /\ SkipEnabled
  /\ session' = SessionAfterSkip(session)
  /\ skipCalls' = SkipCallsAfterSkip(skipCalls, session)
  /\ canvas' = CanvasAfter(canvas, session', loading, error, defectTypes)
  /\ last' = [Op("handleSkip", Undefined) EXCEPT !.n = Len(session.annotations)]
  /\ UNCHANGED << defectTypes, selectedClassId, loading, error, saving, savePc, saveSnap,
                  saveIdx, loadPending, loadSel, pendingReads, store, commitLog >>
  /\ UNCHANGED historyVars

\* ------------------------------------------------------------------ system
\* every handler, with the pointer at any of MousePoints, the registry
\* answering any of RegistryLists, and a Sample Store of capacity MaxStoreUI
Next ==
  \/ \E types \in RegistryLists : LoadOk(types)
  \/ LoadFail
  \/ RetryLoad
  \/ \E f \in Files : HandleFile(f)
  \/ \E f \in Files : ReaderOnLoad(f)
  \/ \E sg \in Suggestions : SelectSuggestion(sg)
  \/ \E m \in {"manual", "active_learning"} : SelectMode(m)
  \/ \E i \in 1..2 : SelectClass(i)
  \/ ImageOnLoad
  \/ \E p \in MousePoints : handleMouseDown(p)
  \/ \E p \in MousePoints : handleMouseMove(p)
  \/ handleMouseUp
  \/ handleCanvasClick
  \/ \E index \in 0..(MaxAnn - 1) : RemoveButton(index)
  \/ handleSaveAnnotations(MaxStoreUI)
  \/ CommitOk
  \/ CommitFail
  \/ handleSkip

Spec == Init /\ [][Next]_vars

\* the page as shipped, whose suggestion list is empty: the same handlers,
\* with the pointer at the corners of the image, a registry whose list does
\* not change, and a Sample Store of capacity MaxStore
NextSave ==
  \/ \E types \in StableRegistryLists : LoadOk(types)
  \/ LoadFail
  \/ RetryLoad
  \/ \E f \in Files : HandleFile(f)
  \/ \E f \in Files : ReaderOnLoad(f)
  \/ \E m \in {"manual", "active_learning"} : SelectMode(m)
  \/ \E i \in 1..2 : SelectClass(i)
  \/ ImageOnLoad
  \/ \E p \in CornerPoints : handleMouseDown(p)
  \/ \E p \in CornerPoints : handleMouseMove(p)
  \/ handleMouseUp
  \/ handleCanvasClick
  \/ \E index \in 0..(MaxAnn - 1) : RemoveButton(index)
  \/ handleSaveAnnotations(MaxStore)
  \/ CommitOk
  \/ CommitFail
  \/ handleSkip

SpecSave == Init /\ [][NextSave]_vars

\* the page as shipped with a Sample Store of capacity MaxStoreUI, under the
\* assumption that every request returns: a pending addTrainingSample
\* resolves or rejects, a pending getCustomDefectTypes resolves or rejects
CommitSettles == CommitOk \/ CommitFail

LoadSettles == LoadFail \/ \E types \in StableRegistryLists : LoadOk(types)

NextLive ==
  \/ \E types \in StableRegistryLists : LoadOk(types)
  \/ LoadFail
  \/ RetryLoad
  \/ \E f \in Files : HandleFile(f)
  \/ \E f \in Files : ReaderOnLoad(f)
  \/ \E m \in {"manual", "active_learning"} : SelectMode(m)
  \/ \E i \in 1..2 : SelectClass(i)
  \/ ImageOnLoad
  \/ \E p \in CornerPoints : handleMouseDown(p)
  \/ \E p \in CornerPoints : handleMouseMove(p)
  \/ handleMouseUp
  \/ handleCanvasClick
  \/ \E index \in 0..(MaxAnn - 1) : RemoveButton(index)
  \/ handleSaveAnnotations(MaxStoreUI)
  \/ CommitOk
  \/ CommitFail
  \/ handleSkip

SpecLive ==
  Init /\ [][NextLive]_vars /\ WF_vars(CommitSettles) /\ WF_vars(LoadSettles)

\* ------------------------------------------------- the analysis history
RECURSIVE ItemsSize(_)
ItemsSize(items) ==
  IF items = {} THEN 0
  ELSE LET e == CHOOSE x \in items : TRUE IN e.size + ItemsSize(items \ {e})

\* localStorage.setItem: throws when the storage is not accessible or the
\* quota would be exceeded, else replaces the item
LsSetItem(ls, name, value) ==
  LET others == { e \in ls.items : e.name # name }
  IN IF ~ls.available \/ ItemsSize(others) + Len(value) > ls.quota
       THEN [threw |-> TRUE, ls |-> ls]
       ELSE [threw |-> FALSE,
             ls |-> [ls EXCEPT !.items =
                       others \cup {[name |-> name, value |-> value, size |-> Len(value)]}]]

\* localStorage.removeItem: throws when the storage is not accessible
LsRemoveItem(ls, name) ==
  IF ~ls.available THEN [threw |-> TRUE, ls |-> ls]
  ELSE [threw |-> FALSE, ls |-> [ls EXCEPT !.items = { e \in @ : e.name # name }]]

\* localStorage.clear: throws when the storage is not accessible
LsClear(ls) ==
  IF ~ls.available THEN [threw |-> TRUE, ls |-> ls]
  ELSE [threw |-> FALSE, ls |-> [ls EXCEPT !.items = {}]]

\* storage.setItem of the persist options: try, on an error remove the key
\* and retry, on a second error clear the storage (outside any try block)
StorageSetItem(ls, name, value) ==
  LET first == LsSetItem(ls, name, value)
      removed == LsRemoveItem(ls, name)
      retry == IF removed.threw THEN removed ELSE LsSetItem(removed.ls, name, value)
  IN IF ~first.threw THEN first
     ELSE IF ~retry.threw THEN retry
     ELSE LsClear(retry.ls)

\* mutant: [newEntry, ...state.history].slice(-50)
HistoryAfterAddKeepLast(h, newEntry) ==
  LET all == <<newEntry>> \o h
  IN SubSeq(all, IF Len(all) < HistoryLimit THEN 1 ELSE Len(all) - HistoryLimit + 1, Len(all))

\* [newEntry, ...state.history].slice(0, 50)
HistoryAfterAdd(h, newEntry) ==
  LET all == <<newEntry>> \o h
  IN SubSeq(all, 1, IF Len(all) < HistoryLimit THEN Len(all) ELSE HistoryLimit)

\* state.history.filter((item) => item.id !== id)
HistoryAfterRemove(h, id) == SelectSeq(h, LAMBDA item : item.id # id)

\* persist writes the history after every set(); an error storage.setItem
\* lets through reaches the caller of the store action; index is the id the
\* action generated or was given
Persist(name, h, index) ==
  /\ localStorage' = StorageSetItem(localStorage, StorageName, h).ls
  /\ last' = [Op(name, IF StorageSetItem(localStorage, StorageName, h).threw
                         THEN "storage error" ELSE Undefined)
                EXCEPT !.index = index]

PageUnchanged ==
  UNCHANGED << session, defectTypes, selectedClassId, loading, error, saving, savePc,
               saveSnap, saveIdx, loadPending, loadSel, pendingReads, canvas, store,
               commitLog, skipCalls >>

addToHistory ==
  /\ idSeq < MaxAdded
  /\ idSeq' = idSeq + 1
  /\ history' = HistoryAfterAdd(history, [id |-> idSeq + 1])
  /\ Persist("addToHistory", history', <<idSeq + 1>>)
  /\ PageUnchanged

removeFromHistory(id) ==
  /\ idSeq' = idSeq
  /\ history' = HistoryAfterRemove(history, id)
  /\ Persist("removeFromHistory", history', <<id>>)
  /\ PageUnchanged

clearHistory ==
  /\ idSeq' = idSeq
  /\ history' = <<>>
  /\ Persist("clearHistory", history', <<>>)
  /\ PageUnchanged

InitHistory ==
  /\ history = <<>>
  /\ idSeq = 0
  /\ localStorage \in
       { [StorageEmpty(avail, quota) EXCEPT !.items = items] :
           avail \in BOOLEAN, quota \in StorageQuotas, items \in { {}, {SettingsItem} } }
  /\ session = EmptySession
  /\ defectTypes = <<>>
  /\ selectedClassId = NoNum
  /\ loading = TRUE
  /\ error = Undefined
  /\ saving = FALSE
  /\ savePc = "idle"
  /\ saveSnap = EmptySession
  /\ saveIdx = 1
  /\ loadPending = TRUE
  /\ loadSel = NoNum
  /\ pendingReads = 0
  /\ canvas = CanvasInit
  /\ store = {}
  /\ commitLog = NoLog
  /\ skipCalls = <<>>
  /\ last = Op("mount", Undefined)

NextHistory ==
  \/ addToHistory
  \/ \E id \in RemoveIds : removeFromHistory(id)
  \/ clearHistory

SpecHistory == InitHistory /\ [][NextHistory]_vars

\* ------------------------------------------- the handlers called directly
\* handleAddAnnotation and handleRemoveAnnotation are handed to the canvas as
\* props (onAddAnnotation, onRemoveAnnotation) and take what the caller gives
\* them: any box, any index, with any class selection and any list of types.
CallAnnotations ==
  LET a == [bbox |-> <<0, 0, 200, 200>>, class_id |-> 1, class_name |-> "porosity"]
      b == [bbox |-> <<0, 0, 100, 100>>, class_id |-> 2, class_name |-> "crack"]
  IN { <<>>, <<a>>, <<b>>, <<a, b>>, <<b, a>>, <<a, a>> }

CallBoxes == { <<0, 0, 200, 200>>, <<10, 20, 30, 40>> }

InitCalls ==
  /\ HistoryIdle
  /\ session \in
       { [s EXCEPT !.annotations = anns] :
           s \in { EmptySession, ManualSession("data:weld.png", ManualImageId),
                   ActiveLearningSession("al/42.png", SuggestionImageId(42), 42) },
           anns \in CallAnnotations }
  /\ defectTypes \in RegistryLists
  /\ selectedClassId \in { NoNum, TypePorosity.id, TypeCrack.id }
  /\ loading = FALSE
  /\ error = Undefined
  /\ saving = FALSE
  /\ savePc = "idle"
  /\ saveSnap = EmptySession
  /\ saveIdx = 1
  /\ loadPending = FALSE
  /\ loadSel = NoNum
  /\ pendingReads = 0
  /\ canvas = CanvasInit
  /\ store = {}
  /\ commitLog = NoLog
  /\ skipCalls = <<>>
  /\ last = Op("mount", Undefined)

CallAddAnnotation(bbox) ==
  /\ session' = AddAnnotation(session, bbox, selectedClassId, defectTypes)
  /\ Len(session'.annotations) <= MaxAnn
  /\ last' = [Op("handleAddAnnotation", AddAlert(selectedClassId)) EXCEPT !.box = bbox]
  /\ UNCHANGED << defectTypes, selectedClassId, loading, error, saving, savePc, saveSnap,
                  saveIdx, loadPending, loadSel, pendingReads, canvas, store, commitLog,
                  skipCalls >>
  /\ UNCHANGED historyVars

CallRemoveAnnotation(index) ==
  /\ session' = [session EXCEPT !.annotations = RemoveAt(@, index)]
  /\ last' = [Op("handleRemoveAnnotation", Undefined) EXCEPT !.index = <<index>>]
  /\ UNCHANGED << defectTypes, selectedClassId, loading, error, saving, savePc, saveSnap,
                  saveIdx, loadPending, loadSel, pendingReads, canvas, store, commitLog,
                  skipCalls >>
  /\ UNCHANGED historyVars

NextCalls ==
  \/ \E bbox \in CallBoxes : CallAddAnnotation(bbox)
  \/ \E index \in -1..MaxAnn : CallRemoveAnnotation(index)

SpecCalls == InitCalls /\ [][NextCalls]_vars

\* ------------------------------------------------------------------ claims
SaveHasEnded == last.op \in {"saveOk", "saveFail"}

\* the handlers through which the user or a pending upload edits the session
SessionEditOps ==
  { "handleMouseUp", "handleCanvasClick", "handleRemoveAnnotation", "handleImageUpload",
    "selectMode" }

\* C1: in every reachable state currentSuggestionId is set only if mode is
\* active_learning.
C1_SuggestionOnlyInActiveLearning ==
  session.currentSuggestionId # NoNum => session.mode = "active_learning"

\* C2: after save() succeeds the session is the Empty state with the mode it
\* had when save() was invoked: image, image id and suggestion id cleared,
\* no annotations, mode unchanged.
C2_SaveSuccessPreservesMode ==
  [][ last'.op = "saveOk" => session' = [EmptySession EXCEPT !.mode = saveSnap.mode] ]_vars

C4_EmptySaveRejected ==
  [][ ( /\ last'.op = "handleSaveAnnotations"
        /\ (session.currentImagePath = Undefined \/ Len(session.annotations) = 0) ) =>
        /\ last'.alert = "Please add at least one annotation"
        /\ session' = session
        /\ store' = store
        /\ ~saving' /\ savePc' = "idle" /\ commitLog' = NoLog ]_vars

\* save was clicked with an image loaded and no annotation, and was rejected
C4_Witness ==
  /\ last.op = "handleSaveAnnotations"
  /\ last.alert = "Please add at least one annotation"
  /\ session.currentImagePath # Undefined
  /\ session.annotations = <<>>

\* C5 as stated: a save() over n annotations attempts a commit for every one
\* of the n annotations, also when an earlier commit fails.
C5_AllCommitsAttempted ==
  SaveHasEnded => Len(last.log.results) = last.log.n

\* C5 amended: the commits of a save() are attempted in annotation order and
\* stop at the first one that fails, so a save that ends has attempted k <= n
\* commits of which only the last can have failed; the save reports failure
\* exactly if a commit failed, and success only after n successful commits.
C5_CommitsStopAtFirstFailure ==
  /\ SaveHasEnded =>
       LET r == last.log.results
       IN /\ Len(r) >= 1 /\ Len(r) <= last.log.n
          /\ \A i \in 1..(Len(r) - 1) : r[i]
          /\ ~r[Len(r)] <=> (last.op = "saveFail" /\ last.alert = "Failed to save annotations")
          /\ r[Len(r)] => (Len(r) = last.log.n /\ last.op = "saveOk")
  /\ savePc = "commit" =>
       /\ Len(commitLog.results) = saveIdx - 1
       /\ \A i \in 1..Len(commitLog.results) : commitLog.results[i]

\* a save of two annotations failed at its first commit: the second got none
C5_Witness ==
  /\ last.op = "saveFail"
  /\ last.log.n = 2
  /\ last.log.results = <<FALSE>>

\* C6: partial writes are never rolled back and a retry commits from the first
\* annotation again, so when a save() succeeds the store holds at least one
\* commit of every annotation of that save, possibly more of the earlier ones.
C6_AtLeastOnceNoRollback ==
  [][ /\ \A e \in store : CopiesOf(store', e.p) >= e.k
      /\ (last'.op = "handleSaveAnnotations" /\ saving') => saveIdx' = 1
      /\ last'.op = "saveOk" =>
           \A i \in 1..Len(saveSnap.annotations) :
              CopiesOf(store', Payload(saveSnap, saveSnap.annotations[i])) >= 1 ]_vars

\* a retry right after a save that failed at its second commit succeeded: the
\* store holds the first annotation twice and the second once
C6_Witness ==
  /\ last.op = "saveOk" /\ last.retry /\ last.log.n = 2
  /\ \E e1, e2 \in store :
       /\ e1.k = 2 /\ e2.k = 1
       /\ e1.p.defect_type_id # e2.p.defect_type_id

\* C7: while a save() is pending neither skip() nor a second save() takes
\* effect: no handler run is a skip or a save, and the pending save keeps the
\* session it captured and moves forward through its commits.
C7_NoSkipOrSaveWhileSaving ==
  [][ saving =>
        /\ last'.op \notin {"handleSkip", "handleSaveAnnotations"}
        /\ (savePc = "commit" /\ savePc' = "commit") =>
             (saveSnap' = saveSnap /\ saveIdx' >= saveIdx) ]_vars

\* the user edited the session while a save was pending
C7_Witness ==
  /\ saving /\ savePc = "commit"
  /\ last.op \in {"handleMouseUp", "handleRemoveAnnotation", "selectMode"}
  /\ session.currentImagePath # Undefined

\* C8: skip() in ImageLoaded results in the Empty state (no image, no
\* suggestion id, no annotations) whatever the number of unsaved annotations,
\* and issues no commit.
C8_SkipResetsToEmpty ==
  [][ last'.op = "handleSkip" =>
        /\ session.currentImagePath # Undefined
        /\ session'.currentImagePath = Undefined
        /\ session'.currentImageId = Undefined
        /\ session'.currentSuggestionId = NoNum
        /\ session'.annotations = <<>>
        /\ store' = store
        /\ savePc' = "idle" /\ ~saving' ]_vars

\* a skip discarded two unsaved annotations
C8_Witness ==
  /\ last.op = "handleSkip"
  /\ last.n = 2
  /\ session.currentImagePath = Undefined

\* C9: skip() in active-learning mode with suggestion id s invokes
\* markSkipped(s) on the queue exactly once, and the session resets to Empty.
C9_SkipNotifiesQueue ==
  [][ ( /\ last'.op = "handleSkip"
        /\ session.mode = "active_learning"
        /\ session.currentSuggestionId # NoNum ) =>
        /\ skipCalls' = Append(skipCalls, session.currentSuggestionId)
        /\ session'.currentImagePath = Undefined ]_vars

\* C10: with an image loaded and a class selected, a box whose normalized
\* width and height are both >= 0.005 (0.005 included) is appended: the
\* annotation count grows by exactly one.
C10_BoxAtLeastMinSizeAppended ==
  [][ ( /\ last'.op = "handleMouseUp"
        /\ selectedClassId # NoNum
        /\ (canvas.currentBox[3] - canvas.currentBox[1]) * MinSizeDen
             >= MinSizeNum * ScaledWidth
        /\ (canvas.currentBox[4] - canvas.currentBox[2]) * MinSizeDen
             >= MinSizeNum * ScaledHeight ) =>
        Len(session'.annotations) = Len(session.annotations) + 1 ]_vars

\* the class selector points at a defect type of the loaded list
ClassSelected == FindType(defectTypes, selectedClassId) # <<>>

C12_NoClassSelectedIffNoClass ==
  [][ last'.op = "handleAddAnnotation" =>
        /\ (last'.alert = "Please select a defect class first") <=> (selectedClassId = NoNum)
        /\ last'.alert \in { Undefined, "Please select a defect class first" }
        /\ selectedClassId = NoNum => session' = session
        /\ (\E i \in 1..Len(defectTypes) : defectTypes[i].id = selectedClassId) =>
             /\ last'.alert = Undefined
             /\ Len(session'.annotations) = Len(session.annotations) + 1 ]_vars

\* addAnnotation was called with no class selected on a session holding two
\* annotations
C12_Witness ==
  /\ last.op = "handleAddAnnotation"
  /\ last.alert = "Please select a defect class first"
  /\ selectedClassId = NoNum
  /\ Len(session.annotations) = 2

\* the handlers that end in handleRemoveAnnotation
RemoveOps == { "handleRemoveAnnotation", "handleCanvasClick" }

\* how many entries of anns equal a
Occurrences(anns, a) == Cardinality({ j \in 1..Len(anns) : anns[j] = a })

C14_RemoveOutOfRangeNoOp ==
  [][ ( /\ last'.op \in RemoveOps
        /\ \/ last'.index[1] < 0
           \/ last'.index[1] >= Len(session.annotations) ) =>
        /\ session' = session
        /\ last'.alert = Undefined ]_vars

\* removeAnnotation(-1) was called on a session holding two annotations
C14_Witness ==
  /\ last.op = "handleRemoveAnnotation"
  /\ last.index = <<-1>>
  /\ Len(session.annotations) = 2

\* the handlers that acquire an image
AcquireOps == { "handleImageUpload", "handleActiveLearningSelect" }

\* C15: an acquisition (manual upload or active-learning selection) takes
\* effect only in the Empty state: once an image is loaded no acquisition
\* replaces it or clears the annotations, also when the file read of an upload
\* completes after the state has changed.
C15_AcquireOnlyInEmpty ==
  [][ last'.op \in AcquireOps => session.currentImagePath = Undefined ]_vars

\* C16: an acquisition without a suggestion id (an upload) that arrives in
\* active-learning mode fails and leaves the session unchanged; an acquisition
\* that arrives in manual mode carries no suggestion id.
C16_AcquisitionMatchesMode ==
  [][ /\ (last'.op = "handleImageUpload" /\ session.mode = "active_learning") =>
           session' = session
      /\ (last'.op \in AcquireOps /\ session.mode = "manual") =>
           session'.currentSuggestionId = NoNum ]_vars

\* C17: selectMode(m) is allowed in every state (Empty, ImageLoaded, Saving)
\* and changes only the mode: image reference, image id, suggestion id and
\* annotation sequence are left as they were, and so is a pending save.
C17_SelectModeChangesOnlyMode ==
  [][ last'.op = "selectMode" =>
        /\ session'.mode \in { "manual", "active_learning" }
        /\ session' = [session EXCEPT !.mode = session'.mode]
        /\ UNCHANGED << selectedClassId, saving, savePc, saveSnap, saveIdx, store >> ]_vars

\* the mode was switched while a save of an annotated image was pending
C17_Witness ==
  /\ last.op = "selectMode"
  /\ saving /\ savePc = "commit"
  /\ session.currentImagePath # Undefined
  /\ session.annotations # <<>>
  /\ session.mode # saveSnap.mode

\* C18: a successful save() of n annotations issues exactly n commits, in
\* annotation order, each carrying that annotation's class id, box and class
\* name, the image reference and image id of the session, the format "bbox"
\* and the mode of the session as source; the session is the one save() was
\* invoked on.
C18_CommitsCarryAnnotationsInOrder ==
  [][ /\ StoreSize(store') =
           StoreSize(store) + (IF last'.op \in { "commitOk", "saveOk" } THEN 1 ELSE 0)
      /\ last'.op \in { "commitOk", "saveOk" } =>
           /\ Len(commitLog.sent) = saveIdx - 1
           /\ CopiesOf(store', Payload(saveSnap, saveSnap.annotations[saveIdx]))
                = CopiesOf(store, Payload(saveSnap, saveSnap.annotations[saveIdx])) + 1
      /\ last'.op = "saveOk" =>
        LET sent == last'.log.sent
            anns == saveSnap.annotations
        IN /\ Len(sent) = Len(anns)
           /\ last'.log.n = Len(anns)
           /\ \A i \in 1..Len(anns) :
                /\ sent[i].defect_type_id = ToString(anns[i].class_id)
                /\ sent[i].annotations.bbox = anns[i].bbox
                /\ sent[i].annotations.class_name = anns[i].class_name
                /\ sent[i].image_path = saveSnap.currentImagePath
                /\ sent[i].image_id = saveSnap.currentImageId
                /\ sent[i].annotation_format = "bbox"
                /\ sent[i].source = saveSnap.mode
                /\ CopiesOf(store', sent[i]) >= 1 ]_vars

\* a save in active-learning mode committed a porosity box and then a crack box
C18_Witness ==
  /\ last.op = "saveOk"
  /\ Len(last.log.sent) = 2
  /\ last.log.sent[1].defect_type_id = "1"
  /\ last.log.sent[2].defect_type_id = "2"
  /\ last.log.sent[1].source = "active_learning"

\* C19: the registry reload is requested exactly once after every fully
\* successful save() and never after a failed one: the step that ends a save
\* with success starts one loadDefectTypes call, none being pending; the step
\* that ends it with failure starts none; and while a save is pending no
\* other step starts one.
C19_ReloadOnceAfterSuccessOnly ==
  [][ /\ last'.op = "saveOk" =>
           /\ ~loadPending /\ loadPending' /\ loading'
           /\ savePc' = "reload"
      /\ last'.op = "saveFail" =>
           /\ ~loadPending /\ ~loadPending' /\ ~loading'
           /\ savePc' = "idle"
      /\ (saving /\ ~loadPending /\ loadPending') => last'.op = "saveOk"
      /\ (savePc = "reload" /\ savePc' = "reload") => (loadPending /\ loadPending') ]_vars

\* a save has succeeded and its reload of the registry is under way
C19_Witness ==
  /\ last.op = "saveOk"
  /\ savePc = "reload"
  /\ loadPending
  /\ StoreSize(store) >= 1

\* C20: a failure of the registry reload that follows a successful save() is
\* non-fatal: the save has put the session in Empty, nothing but a completing
\* upload changes it while the reload is pending, the failure itself leaves it
\* as it is, reports no failed save and clears the saving flag.
C20_ReloadFailureNonFatal ==
  [][ /\ last'.op = "saveOk" =>
           /\ session'.currentImagePath = Undefined
           /\ session'.annotations = <<>>
      /\ (savePc = "reload" /\ session' # session) => last'.op = "handleImageUpload"
      /\ (last'.op = "loadFail" /\ savePc = "reload") =>
           /\ session' = session
           /\ last'.afterSave
           /\ last'.alert = Undefined
           /\ ~saving' /\ savePc' = "idle"
           /\ store' = store ]_vars

\* the reload after a successful save failed: the session is Empty, the sample
\* is in the store and the page shows the load error
C20_Witness ==
  /\ last.op = "loadFail" /\ last.afterSave
  /\ session = EmptySession
  /\ ~saving
  /\ StoreSize(store) >= 1
  /\ error = "Failed to load defect types"

\* C21: every annotation stored in the session has 0 <= x1 < x2 <= 1 and
\* 0 <= y1 < y2 <= 1, with width and height at least the 0.5% minimum, in
\* every reachable state, whatever the order of the two corners of the drag.
C21_StoredBoxesWellFormed ==
  \A i \in 1..Len(session.annotations) :
     LET b == session.annotations[i].bbox
     IN /\ 0 <= b[1] /\ b[1] < b[3] /\ b[3] <= ScaledWidth
        /\ 0 <= b[2] /\ b[2] < b[4] /\ b[4] <= ScaledHeight
        /\ (b[3] - b[1]) * MinSizeDen >= MinSizeNum * ScaledWidth
        /\ (b[4] - b[2]) * MinSizeDen >= MinSizeNum * ScaledHeight

\* a drag from the bottom-right corner to the top-left one, with both points
\* outside the image, was stored as the full-image box
C21_Witness ==
  /\ last.op = "handleMouseUp"
  /\ last.start = << ScaledWidth, ScaledHeight >>
  /\ last.box = << 0, 0, ScaledWidth, ScaledHeight >>
  /\ session.annotations # <<>>
  /\ session.annotations[Len(session.annotations)].bbox = last.box

\* C22: in every reachable state the selected class is unset or is the id of a
\* type of the current defectTypes list, also after the registry list has
\* been reloaded with a different set of types.
C22_SelectedClassExists ==
  selectedClassId = NoNum \/ ClassSelected

\* C23: the commits of one save() are issued strictly one after the other:
\* the commit of annotation i+1 is issued only when the commit of annotation
\* i has succeeded, and after the first failing commit no further commit is
\* issued in that save(): the save is over, and the store changes again only
\* through the commits of a save started anew from its first annotation.
C23_CommitsStrictlySequential ==
  [][ /\ saveIdx' # saveIdx =>
           \/ last'.op = "commitOk" /\ saveIdx' = saveIdx + 1 /\ savePc' = "commit"
           \/ last'.op \in { "saveOk", "saveFail" } /\ saveIdx' = 1 /\ savePc' # "commit"
      /\ last'.op = "commitOk" =>
           /\ Len(commitLog'.sent) = saveIdx
           /\ \A i \in 1..saveIdx : commitLog'.results[i]
      /\ last'.op = "saveFail" =>
           /\ savePc' = "idle" /\ store' = store
           /\ Len(last'.log.sent) = saveIdx
           /\ saveIdx <= last'.log.n
      /\ store' # store => (savePc = "commit" /\ last'.op \in { "commitOk", "saveOk" })
      /\ (savePc # "commit" /\ savePc' = "commit") =>
           (last'.op = "handleSaveAnnotations" /\ saveIdx' = 1 /\ commitLog'.sent = <<>>) ]_vars

\* a save of two annotations failed at its second commit, the first being
\* in the store
C23_Witness ==
  /\ last.op = "saveFail"
  /\ last.log.n = 2
  /\ last.log.results = <<TRUE, FALSE>>
  /\ CopiesOf(store, last.log.sent[1]) >= 1

\* C24: saving is transient: provided every commit and the registry reload
\* return, every save() leaves Saving and the saving flag is false again; the
\* save ends with the session reset to Empty when its last commit succeeded
\* and with the image still loaded when a commit failed.
C24_SavingIsTransient ==
  /\ saving ~> ~saving
  /\ [][ /\ (saving /\ ~saving') =>
              \/ (last'.op = "saveFail" /\ session' = session
                    /\ session'.currentImagePath # Undefined)
              \/ (last'.op \in { "loadOk", "loadFail" } /\ last'.afterSave
                    /\ session' = session)
         /\ last'.op = "saveOk" =>
              (saving' /\ session'.currentImagePath = Undefined
                       /\ session'.annotations = <<>>) ]_vars

\* a save has run to its end: its commit succeeded and its reload returned
C24_Witness ==
  /\ last.op = "loadOk" /\ last.afterSave
  /\ ~saving /\ savePc = "idle"
  /\ session.currentImagePath = Undefined
  /\ StoreSize(store) >= 1

\* C25: a successful addAnnotation appends the new entry at the end of the
\* sequence, with the box drawn, the selected class as class id and the name
\* of that defect type as class name, and leaves every earlier entry at its
\* position and the rest of the session unchanged.
C25_AppendKeepsEarlierEntries ==
  [][ ( /\ last'.op = "handleMouseUp"
        /\ session'.annotations # session.annotations ) =>
        LET old == session.annotations
            new == session'.annotations
        IN /\ Len(new) = Len(old) + 1
           /\ \A i \in 1..Len(old) : new[i] = old[i]
           /\ new[Len(new)].bbox = canvas.currentBox
           /\ new[Len(new)].class_id = selectedClassId
           /\ \E i \in 1..Len(defectTypes) :
                /\ defectTypes[i].id = selectedClassId
                /\ defectTypes[i].name = new[Len(new)].class_name
           /\ session' = [session EXCEPT !.annotations = new] ]_vars

\* a crack box was appended after a porosity box
C25_Witness ==
  /\ last.op = "handleMouseUp"
  /\ Len(session.annotations) = 2
  /\ session.annotations[1].class_id = TypePorosity.id
  /\ session.annotations[2].class_id = TypeCrack.id
  /\ session.annotations[2].class_name = TypeCrack.name
  /\ selectedClassId = TypeCrack.id

\* the actions of the history store, each of which ends in storage.setItem
HistoryOps == { "addToHistory", "removeFromHistory", "clearHistory" }

\* the item the storage holds under the history key, as a set
StoredHistory(ls) == { e.value : e \in { x \in ls.items : x.name = StorageName } }

\* C26: storage.setItem never lets a write failure through to its caller, and
\* once it has returned the storage holds the value under the name or, the
\* write having failed twice, is empty.
C26_SetItemNeverThrows ==
  [][ last'.op \in HistoryOps =>
        /\ last'.alert = Undefined
        /\ \/ StoredHistory(localStorage') = { history' }
           \/ localStorage'.items = {} ]_vars

\* C27: in every reachable state a non-empty annotation sequence implies that
\* an image is loaded (currentImagePath is set); annotations never exist in the
\* Empty state.
C27_AnnotationsOnlyWithImage ==
  session.annotations # <<>> => session.currentImagePath # Undefined

C27_Witness ==
  /\ Len(session.annotations) = MaxAnn
  /\ session.currentImagePath # Undefined
  /\ session.currentSuggestionId # NoNum
  /\ last.op = "handleMouseUp"
  /\ ~saving

\* the number of payloads of a sequence of commits that were built from
\* annotation a
CommitsOf(sent, a) ==
  Cardinality({ k \in 1..Len(sent) :
                  /\ sent[k].defect_type_id = ToString(a.class_id)
                  /\ sent[k].annotations = [bbox |-> a.bbox, class_name |-> a.class_name] })

\* C28: every annotation that is in the session at the moment a successful
\* save() resets it has been committed to the Sample Store by that save(): no
\* annotation added or present during the in-flight save is discarded without
\* a commit.
C28_ResetDiscardsOnlyCommitted ==
  [][ last'.op = "saveOk" =>
        \A j \in 1..Len(session.annotations) :
          Occurrences(session.annotations, session.annotations[j])
            <= CommitsOf(last'.log.sent, session.annotations[j]) ]_vars

\* the source of the acquisition an image id stems from: uploads get the id
\* ManualImageId, suggestions the id of the suggestion
AcquisitionSource(imageId) ==
  IF imageId = ManualImageId THEN "manual" ELSE "active_learning"

\* C29: the source carried by every commit equals the acquisition source
\* through which the current image was obtained ("active_learning" exactly
\* for an active-learning suggestion, "manual" exactly for a manual upload),
\* after any sequence of mode selections between acquisition and save.
C29_CommitSourceIsAcquisitionSource ==
  [][ SaveHasEnded' =>
        \A k \in 1..Len(last'.log.sent) :
          last'.log.sent[k].source = AcquisitionSource(last'.log.sent[k].image_id) ]_vars

\* entries in the order of their creation, the newest in front (ids are
\* numbered in the order of the addToHistory calls)
NewestFirst(h) == \A j \in 1..(Len(h) - 1) : h[j].id > h[j + 1].id

\* the number of entries with the id among the first j entries of h
WithId(h, id, j) == Cardinality({ i \in 1..j : h[i].id = id })

\* C30: the analysis history never holds more than 50 entries and is ordered
\* newest first: addToHistory places the new entry at index 0 and, when the
\* list was full, drops only the oldest (last) entry; removeFromHistory(id)
\* removes exactly the entries with that id and keeps the order of the rest.
C30_HistoryBoundedNewestFirst ==
  /\ [](Len(history) <= HistoryLimit /\ NewestFirst(history))
  /\ [][ /\ last'.op = "addToHistory" =>
             /\ history'[1].id = last'.index[1]
             /\ last'.index[1] \notin { history[j].id : j \in 1..Len(history) }
             /\ Len(history') = IF Len(history) < HistoryLimit
                                  THEN Len(history) + 1 ELSE HistoryLimit
             /\ \A j \in 2..Len(history') : history'[j] = history[j - 1]
         /\ last'.op = "removeFromHistory" =>
             LET id == last'.index[1] IN
             /\ Len(history') = Len(history) - WithId(history, id, Len(history))
             /\ \A j \in 1..Len(history) :
                  history[j].id # id => history'[j - WithId(history, id, j)] = history[j]
     ]_vars

\* the history was full and an entry was added: the oldest entry is gone
C30_Witness ==
  /\ last.op = "addToHistory"
  /\ Len(history) = HistoryLimit
  /\ idSeq = HistoryLimit + 1
  /\ history[1].id = HistoryLimit + 1
  /\ history[HistoryLimit].id = 2

====
